---- MODULE Spec2Model ----
(***************************************************************************)
(* Model of src/main.py: a container's log lines are streamed, batched    *)
(* and appended to a CloudWatch log stream under a sequence token; the    *)
(* container is stopped and removed in a finally block.                   *)
(***************************************************************************)
EXTENDS Integers, Sequences, FiniteSets, TLC

\* ---------------------------------------------------------------- bounds
MaxLines == 25      \* lines the primary stream may yield in one session
MaxBlank == 1       \* of which at most this many are whitespace-only
MaxDrain == 2       \* lines the second (non-streaming) read may return
MaxThrottle == 2    \* throttling answers of the sink in one session
MaxHarnessLen == 2  \* batch length when push_log_events is called alone

\* ------------------------------------------------------ program constants
N == 10             \* batch threshold, `len(log_events) >= 10`
SleepSecs == 2      \* `time.sleep(2)`
RecursionLimit == 1000  \* frames the interpreter allows (its default); the
                        \* retry at line 108 adds one frame per throttle

\* ------------------------------------------------------------ encodings
None == 0           \* Python None; sink tokens are the naturals >= 1
SP == 0             \* a whitespace character
BAD == -1           \* a byte that is not valid UTF-8

\* raw lines the source may deliver; k names the text of the line, the
\* k-th line that is not blank carries text k
Variants == {"blank", "text", "padded", "bad"}

RawLine(k, v) ==
    CASE v = "blank"  -> <<SP>>
      [] v = "text"   -> <<k, SP>>
      [] v = "padded" -> <<SP, k, SP>>
      [] v = "bad"    -> <<BAD>>

\* bytes.decode('utf-8') raises when the line holds an invalid byte
Decodable(raw) == \A i \in 1..Len(raw) : raw[i] # BAD

\* the decoded text: lines are sequences of single-byte code points, which
\* UTF-8 decodes to the same code points
Decode(raw) == raw

RECURSIVE LStrip(_)
LStrip(s) == IF s = <<>> THEN s
             ELSE IF Head(s) = SP THEN LStrip(Tail(s)) ELSE s

RECURSIVE RStrip(_)
RStrip(s) == IF s = <<>> THEN s
             ELSE IF s[Len(s)] = SP THEN RStrip(SubSeq(s, 1, Len(s) - 1)) ELSE s

\* str.strip()
Strip(s) == RStrip(LStrip(s))

\* the line is decoded but not stripped
MessageUnstripped(raw) == Decode(raw)

\* line.decode('utf-8').strip()
Message(raw) == Strip(Decode(raw))

\* the log_event dict built for an accepted line
LogEvent(ts, raw) == [timestamp |-> ts, message |-> Message(raw)]

\* ------------------------------------------------------ exception classes
\* APIError is a DockerException; everything is an Exception
IsA(k, cls) ==
    \/ k = cls
    \/ cls = "Exception"
    \/ (k = "APIError" /\ cls = "DockerException")

\* `except docker.errors.APIError` of the inner try
InnerCatches(k) == IsA(k, "APIError")

\* the outer try without its `except Exception` clause
OuterCatchesNamed(k) ==
    \/ IsA(k, "DockerException")
    \/ IsA(k, "ClientError")

\* the three except clauses of the outer try
OuterCatches(k) ==
    \/ IsA(k, "DockerException")
    \/ IsA(k, "ClientError")
    \/ IsA(k, "Exception")

VARIABLES
    pc,              \* position in main / push_log_events
    pending,         \* exception in flight, "none" if none
    container,       \* TRUE once containers.run returned a handle
    log_events,      \* main's buffer
    sequence_token,  \* main's cursor
    line,            \* the loop variable of the streaming pass
    drain_out,       \* what the second container.logs() call returned
    nLines,          \* lines delivered by the streaming read so far
    nBlank,          \* whitespace-only lines among them
    frame,           \* arguments of the running push_log_events call
    result,          \* value returned by the last push_log_events call
    sinkLog,         \* every put_log_events call and its answer
    sinkNext,        \* last token the sink issued
    sleeps,          \* durations of the time.sleep calls
    cleanup,         \* the stop / remove calls made on the container
    accepted,        \* messages of the events created, in arrival order
    steps,           \* the steps of main taken so far, in order
    loopEnd,         \* how the streaming loop ended, "running" before
    provision,       \* the sink's answers to create_log_group / _stream
    escaped          \* TRUE when an exception left main

vars == <<pc, pending, container, log_events, sequence_token, line, drain_out,
          nLines, nBlank, frame, result, sinkLog, sinkNext, sleeps, cleanup,
          accepted, steps, loopEnd, provision, escaped>>

NoFrame == [events |-> <<>>, token |-> None, caller |-> "none", depth |-> 0]

Init ==
    /\ pc = "create_group"
    /\ pending = "none"
    /\ container = FALSE
    /\ log_events = <<>>
    /\ sequence_token = None
    /\ line = <<>>
    /\ drain_out = <<>>
    /\ nLines = 0
    /\ nBlank = 0
    /\ frame = NoFrame
    /\ result = None
    /\ sinkLog = <<>>
    /\ sinkNext = 0
    /\ sleeps = <<>>
    /\ cleanup = <<>>
    /\ accepted = <<>>
    /\ steps = <<>>
    /\ loopEnd = "running"
    /\ provision = <<>>
    /\ escaped = FALSE

\* the step `name` of main is taken; the reads of the streaming loop count
\* as one step
Step(name) ==
    steps' = IF steps # <<>> /\ steps[Len(steps)] = name /\ name = "stream"
             THEN steps ELSE Append(steps, name)

\* ---------------------------------------------------------- provisioning
\* the exception is treated as if the finally block covered it
RaiseOuterIntoFinally(k) ==
    /\ pending' = k
    /\ pc' = "stop"

\* an exception raised inside the outer try but outside the inner one
RaiseOuter(k) ==
    /\ pending' = k
    /\ pc' = "outer_except"

\* only a fresh creation lets the function return
ReturnsWhenCreated(ans) == ans = "created"

\* create_log_group / create_log_stream return normally when the resource
\* was created and when `except ...ResourceAlreadyExistsException` caught
\* the answer; every other error leaves the function
Returns(ans) == ans \in {"created", "exists"}

\* create_log_group: ResourceAlreadyExistsException is swallowed
create_log_group ==
    /\ pc = "create_group"
    /\ Step("ensure_group")
    /\ UNCHANGED loopEnd
    /\ \E ans \in {"created", "exists", "ClientError", "Exception"} :
         /\ provision' = Append(provision, ans)
         /\ IF Returns(ans)
            THEN pc' = "create_stream" /\ UNCHANGED pending
            ELSE RaiseOuter(ans)
    /\ UNCHANGED <<container, log_events, sequence_token, line, drain_out,
                   nLines, nBlank, frame, result, sinkLog, sinkNext, sleeps,
                   cleanup, accepted, escaped>>

create_log_stream ==
    /\ pc = "create_stream"
    /\ Step("ensure_stream")
    /\ UNCHANGED loopEnd
    /\ \E ans \in {"created", "exists", "ClientError", "Exception"} :
         /\ provision' = Append(provision, ans)
         /\ IF Returns(ans)
            THEN pc' = "from_env" /\ UNCHANGED pending
            ELSE RaiseOuter(ans)
    /\ UNCHANGED <<container, log_events, sequence_token, line, drain_out,
                   nLines, nBlank, frame, result, sinkLog, sinkNext, sleeps,
                   cleanup, accepted, escaped>>

\* docker.from_env(), then log_events = [] and sequence_token = None
from_env ==
    /\ pc = "from_env"
    /\ UNCHANGED provision
    /\ Step("connect")
    /\ UNCHANGED loopEnd
    /\ \E ans \in {"ok", "DockerException"} :
         IF ans = "ok"
         THEN /\ pc' = "run"
              /\ log_events' = <<>>
              /\ sequence_token' = None
              /\ UNCHANGED pending
         ELSE RaiseOuter(ans) /\ UNCHANGED <<log_events, sequence_token>>
    /\ UNCHANGED <<container, line, drain_out, nLines, nBlank, frame, result,
                   sinkLog, sinkNext, sleeps, cleanup, accepted, escaped>>

\* client.containers.run(..., detach=True)
containers_run ==
    /\ pc = "run"
    /\ UNCHANGED provision
    /\ Step("start")
    /\ UNCHANGED loopEnd
    /\ \E ans \in {"ok", "APIError", "DockerException"} :
         IF ans = "ok"
         THEN pc' = "stream" /\ container' = TRUE /\ UNCHANGED pending
         ELSE RaiseOuter(ans) /\ UNCHANGED container
    /\ UNCHANGED <<log_events, sequence_token, line, drain_out, nLines, nBlank,
                   frame, result, sinkLog, sinkNext, sleeps, cleanup, accepted,
                   escaped>>

\* ------------------------------------------------------- the inner try
\* the buffer is still flushed after an exception in the inner try
RaiseInnerThenFlush(k) ==
    /\ pending' = IF InnerCatches(k) THEN "none" ELSE k
    /\ pc' = "final"

\* an exception raised inside the inner try: APIError is logged by the
\* inner except clause, anything else stays in flight through the finally
RaiseInner(k) ==
    /\ pending' = IF InnerCatches(k) THEN "none" ELSE k
    /\ pc' = "stop"

\* the call push_log_events(..., log_events, sequence_token)
Call(events, token, caller) ==
    [events |-> events, token |-> token, caller |-> caller, depth |-> 0]

\* a batch is pushed when the buffer reaches a size above the threshold
ThresholdAbove(buf) == Len(buf) > N

\* `if len(log_events) >= 10`
Threshold(buf) == Len(buf) >= N

\* one iteration of `for line in container.logs(stream=True, ...)`
StreamLine ==
    /\ pc = "stream"
    /\ UNCHANGED provision
    /\ Step("stream")
    /\ nLines < MaxLines
    /\ \E v \in Variants :
         LET raw == RawLine(Len(accepted) + 1, v) IN
         /\ v = "blank" => nBlank < MaxBlank
         /\ line' = raw
         /\ nLines' = nLines + 1
         /\ nBlank' = IF v = "blank" THEN nBlank + 1 ELSE nBlank
         /\ loopEnd' = IF ~Decodable(raw) THEN "decode" ELSE loopEnd
         /\ IF ~Decodable(raw)
            THEN /\ RaiseInner("Exception")
                 /\ UNCHANGED <<log_events, accepted, frame>>
            ELSE IF Message(raw) # <<>>
            THEN LET buf == Append(log_events, LogEvent(Len(accepted) + 1, raw)) IN
                 /\ log_events' = buf
                 /\ accepted' = Append(accepted, Message(raw))
                 /\ IF Threshold(buf)
                    THEN /\ frame' = Call(buf, sequence_token, "stream")
                         /\ pc' = "push"
                    ELSE /\ pc' = "stream"
                         /\ UNCHANGED frame
                 /\ UNCHANGED pending
            ELSE /\ pc' = "stream"
                 /\ UNCHANGED <<log_events, accepted, frame, pending>>
    /\ UNCHANGED <<container, sequence_token, drain_out, result, sinkLog,
                   sinkNext, sleeps, cleanup, escaped>>

\* the line iterator ends: the container has exited; the loop variable is
\* not read after the loop and is dropped here
StreamExhausted ==
    /\ pc = "stream"
    /\ UNCHANGED provision
    /\ Step("stream")
    /\ loopEnd' = "exhausted"
    /\ pc' = "drain"
    /\ line' = <<>>
    /\ UNCHANGED <<pending, container, log_events, sequence_token,
                   drain_out, nLines, nBlank, frame, result, sinkLog, sinkNext,
                   sleeps, cleanup, accepted, escaped>>

\* the streaming read raises instead of yielding a line
StreamError ==
    /\ pc = "stream"
    /\ UNCHANGED provision
    /\ Step("stream")
    /\ \E k \in {"APIError", "Exception"} :
         RaiseInner(k) /\ loopEnd' = k
    /\ UNCHANGED <<container, log_events, sequence_token, line, drain_out,
                   nLines, nBlank, frame, result, sinkLog, sinkNext, sleeps,
                   cleanup, accepted, escaped>>

\* what container.logs(stdout=True, stderr=True) may return when k lines
\* were accepted before it
DrainOutputs(k) ==
    UNION { { [i \in 1..n |->
                 RawLine(k + Cardinality({j \in 1..i : f[j] \in {"text", "padded"}}),
                         f[i])] : f \in [1..n -> Variants] }
            : n \in 0..MaxDrain }

\* the second read: container.logs(stdout=True, stderr=True)
DrainRead ==
    /\ pc = "drain"
    /\ UNCHANGED provision
    /\ Step("drain")
    /\ UNCHANGED loopEnd
    /\ \/ \E raws \in DrainOutputs(Len(accepted)) :
            /\ drain_out' = raws
            /\ pc' = "extend"
            /\ UNCHANGED pending
       \/ \E k \in {"APIError", "Exception"} :
            /\ RaiseInner(k)
            /\ UNCHANGED drain_out
    /\ UNCHANGED <<container, log_events, sequence_token, line, nLines, nBlank,
                   frame, result, sinkLog, sinkNext, sleeps, cleanup, accepted,
                   escaped>>

RECURSIVE Comprehension(_, _)
\* [ {...} for line in raws if line.decode('utf-8').strip() ]; ts is the
\* time of the next event
Comprehension(raws, ts) ==
    IF raws = <<>> THEN <<>>
    ELSE IF Message(Head(raws)) # <<>>
         THEN <<LogEvent(ts, Head(raws))>> \o Comprehension(Tail(raws), ts + 1)
         ELSE Comprehension(Tail(raws), ts)

RECURSIVE Messages(_)
\* the 'message' fields of a list of events
Messages(events) ==
    IF events = <<>> THEN <<>>
    ELSE <<Head(events).message>> \o Messages(Tail(events))

\* log_events.extend([...]): a line that does not decode aborts the
\* comprehension before extend is called
DrainExtend ==
    /\ pc = "extend"
    /\ UNCHANGED provision
    /\ UNCHANGED steps
    /\ UNCHANGED loopEnd
    /\ drain_out' = <<>>
    /\ IF \E i \in 1..Len(drain_out) : ~Decodable(drain_out[i])
       THEN /\ RaiseInner("Exception")
            /\ UNCHANGED <<log_events, accepted>>
       ELSE LET new == Comprehension(drain_out, Len(accepted) + 1) IN
            /\ log_events' = log_events \o new
            /\ accepted' = accepted \o Messages(new)
            /\ pc' = "final"
            /\ UNCHANGED pending
    /\ UNCHANGED <<container, sequence_token, line, nLines, nBlank, frame,
                   result, sinkLog, sinkNext, sleeps, cleanup, escaped>>

\* `if log_events: push_log_events(...)`, the return value is dropped
FinalFlush ==
    /\ pc = "final"
    /\ UNCHANGED provision
    /\ Step("flush")
    /\ UNCHANGED loopEnd
    /\ IF log_events # <<>>
       THEN /\ frame' = Call(log_events, sequence_token, "final")
            /\ pc' = "push"
       ELSE /\ pc' = "stop"
            /\ UNCHANGED frame
    /\ UNCHANGED <<pending, container, log_events, sequence_token, line,
                   drain_out, nLines, nBlank, result, sinkLog, sinkNext, sleeps,
                   cleanup, accepted, escaped>>

\* ------------------------------------------------------ push_log_events
\* kwargs of put_log_events that never carry a sequenceToken
KwargsNoToken(f) == [logEvents |-> f.events, sequenceToken |-> None]

\* kwargs of put_log_events: sequenceToken is set only for a truthy token
Kwargs(f) ==
    [logEvents |-> f.events,
     sequenceToken |-> IF f.token # None THEN f.token ELSE None]

\* one put_log_events call as the sink saw it
SinkCall(f, answer, issued) ==
    [events |-> Kwargs(f).logEvents, token |-> Kwargs(f).sequenceToken,
     answer |-> answer, issued |-> issued, phase |-> f.caller]

\* an empty batch returns no token
EmptyResultNone(f) == None

\* the value returned for an empty batch
EmptyResult(f) == f.token

\* `if not log_events: return sequence_token`
PushEmpty ==
    /\ pc = "push"
    /\ UNCHANGED provision
    /\ UNCHANGED steps
    /\ UNCHANGED loopEnd
    /\ frame.events = <<>>
    /\ result' = EmptyResult(frame)
    /\ pc' = "push_return"
    /\ UNCHANGED <<pending, container, log_events, sequence_token, line,
                   drain_out, nLines, nBlank, frame, sinkLog, sinkNext, sleeps,
                   cleanup, accepted, escaped>>

\* put_log_events succeeds: return response['nextSequenceToken']
PutOk ==
    /\ pc = "push"
    /\ UNCHANGED provision
    /\ UNCHANGED steps
    /\ UNCHANGED loopEnd
    /\ frame.events # <<>>
    /\ sinkNext' = sinkNext + 1
    /\ sinkLog' = Append(sinkLog, SinkCall(frame, "ok", sinkNext + 1))
    /\ result' = sinkNext + 1
    /\ pc' = "push_return"
    /\ UNCHANGED <<pending, container, log_events, sequence_token, line,
                   drain_out, nLines, nBlank, frame, sleeps, cleanup, accepted,
                   escaped>>

\* the retry carries the batch without its first event
RetryFrameShort(f) == [f EXCEPT !.events = Tail(f.events), !.depth = f.depth + 1]

\* the arguments of the recursive call after a ThrottlingException
RetryFrame(f) == [f EXCEPT !.depth = f.depth + 1]

\* the recursive call fits on the stack whatever the depth
FitsAlways(f) == TRUE

\* the recursive call at line 108 needs one more frame; past the
\* interpreter's limit it raises RecursionError instead (the frames of the
\* callers and of the client library only make that happen earlier)
Fits(f) == f.depth + 1 < RecursionLimit

\* ClientError with code ThrottlingException: sleep, then call itself
\* again; `most` bounds the throttling answers of the run
Throttled(most) ==
    /\ pc = "push"
    /\ UNCHANGED provision
    /\ UNCHANGED steps
    /\ frame.events # <<>>
    /\ Len(sleeps) < most
    /\ sinkLog' = Append(sinkLog, SinkCall(frame, "throttled", None))
    /\ sleeps' = Append(sleeps, SleepSecs)
    /\ IF Fits(frame)
       THEN /\ frame' = RetryFrame(frame)
            /\ pc' = "push"
            /\ UNCHANGED pending
       ELSE /\ UNCHANGED frame
            /\ IF frame.caller = "harness"
               THEN pc' = "harness_raised" /\ pending' = "Exception"
               ELSE RaiseInner("Exception")
    /\ loopEnd' = IF ~Fits(frame) /\ frame.caller = "stream"
                  THEN "append" ELSE loopEnd
    /\ UNCHANGED <<container, log_events, sequence_token, line, drain_out,
                   nLines, nBlank, result, sinkNext, cleanup, accepted,
                   escaped>>

PutThrottled == Throttled(MaxThrottle)

\* a failed append returns no token
FailedResultNone(f) == None

\* the value returned for a ClientError that is not throttling
FailedResult(f) == f.token

\* any other ClientError: logged, the token given is returned
PutFailed ==
    /\ pc = "push"
    /\ UNCHANGED provision
    /\ UNCHANGED steps
    /\ UNCHANGED loopEnd
    /\ frame.events # <<>>
    /\ sinkLog' = Append(sinkLog, SinkCall(frame, "failed", None))
    /\ result' = FailedResult(frame)
    /\ pc' = "push_return"
    /\ UNCHANGED <<pending, container, log_events, sequence_token, line,
                   drain_out, nLines, nBlank, frame, sleeps, sinkNext, cleanup,
                   accepted, escaped>>

\* put_log_events raises something that is not a ClientError: no frame of
\* push_log_events handles it, so it reaches the caller
PutRaised ==
    /\ pc = "push"
    /\ UNCHANGED provision
    /\ UNCHANGED steps
    /\ frame.events # <<>>
    /\ sinkLog' = Append(sinkLog, SinkCall(frame, "raised", None))
    /\ IF frame.caller = "harness"
       THEN pc' = "harness_raised" /\ pending' = "Exception"
       ELSE RaiseInner("Exception")
    /\ loopEnd' = IF frame.caller = "stream" THEN "append" ELSE loopEnd
    /\ UNCHANGED <<container, log_events, sequence_token, line, drain_out,
                   nLines, nBlank, frame, result, sleeps, sinkNext, cleanup,
                   accepted, escaped>>

\* the buffer is kept after a push
BufferKept(buf) == buf

\* `log_events = []` after the push
BufferAfterPush(buf) == <<>>

\* back in the streaming loop: sequence_token = <returned>; log_events = []
ReturnToStream ==
    /\ pc = "push_return"
    /\ UNCHANGED provision
    /\ UNCHANGED steps
    /\ UNCHANGED loopEnd
    /\ frame.caller = "stream"
    /\ sequence_token' = result
    /\ log_events' = BufferAfterPush(log_events)
    /\ frame' = NoFrame
    /\ pc' = "stream"
    /\ UNCHANGED <<pending, container, line, drain_out, nLines, nBlank, result,
                   sinkLog, sinkNext, sleeps, cleanup, accepted, escaped>>

\* back after the final push: the try block ends, the finally runs
ReturnToFinal ==
    /\ pc = "push_return"
    /\ UNCHANGED provision
    /\ UNCHANGED steps
    /\ UNCHANGED loopEnd
    /\ frame.caller = "final"
    /\ frame' = NoFrame
    /\ pc' = "stop"
    /\ UNCHANGED <<pending, container, log_events, sequence_token, line,
                   drain_out, nLines, nBlank, result, sinkLog, sinkNext, sleeps,
                   cleanup, accepted, escaped>>

\* ------------------------------------------------------------- cleanup
\* finally: container.stop()
ContainerStop ==
    /\ pc = "stop"
    /\ UNCHANGED provision
    /\ Step("stop")
    /\ UNCHANGED loopEnd
    /\ cleanup' = Append(cleanup, "stop")
    /\ \E ans \in {"ok", "APIError"} :
         IF ans = "ok"
         THEN pc' = "remove" /\ UNCHANGED pending
         ELSE RaiseOuter(ans)
    /\ UNCHANGED <<container, log_events, sequence_token, line, drain_out,
                   nLines, nBlank, frame, result, sinkLog, sinkNext, sleeps,
                   accepted, escaped>>

\* finally: container.remove(); afterwards an exception still in flight
\* continues to the outer except clauses
ContainerRemove ==
    /\ pc = "remove"
    /\ UNCHANGED provision
    /\ Step("remove")
    /\ UNCHANGED loopEnd
    /\ cleanup' = Append(cleanup, "remove")
    /\ \E ans \in {"ok", "APIError"} :
         IF ans = "ok"
         THEN /\ pc' = IF pending = "none" THEN "done" ELSE "outer_except"
              /\ UNCHANGED pending
         ELSE RaiseOuter(ans)
    /\ UNCHANGED <<container, log_events, sequence_token, line, drain_out,
                   nLines, nBlank, frame, result, sinkLog, sinkNext, sleeps,
                   accepted, escaped>>

\* except DockerException / ClientError / Exception: logged, main returns
OuterExcept ==
    /\ pc = "outer_except"
    /\ UNCHANGED provision
    /\ UNCHANGED steps
    /\ UNCHANGED loopEnd
    /\ escaped' = ~OuterCatches(pending)
    /\ pending' = "none"
    /\ pc' = "done"
    /\ UNCHANGED <<container, log_events, sequence_token, line, drain_out,
                   nLines, nBlank, frame, result, sinkLog, sinkNext, sleeps,
                   cleanup, accepted>>

Next ==
    \/ create_log_group
    \/ create_log_stream
    \/ from_env
    \/ containers_run
    \/ StreamLine
    \/ StreamExhausted
    \/ StreamError
    \/ DrainRead
    \/ DrainExtend
    \/ FinalFlush
    \/ PutOk
    \/ PutThrottled
    \/ PutFailed
    \/ PutRaised
    \/ ReturnToStream
    \/ ReturnToFinal
    \/ ContainerStop
    \/ ContainerRemove
    \/ OuterExcept

Spec == Init /\ [][Next]_vars

\* main is one thread that is never suspended for good: every call it
\* makes returns or raises, so a step that can be taken is taken
FairSpec == Spec /\ WF_vars(Next)

\* ------------------------------------ push_log_events called on its own
\* batches and tokens a caller may pass
HarnessBatches ==
    UNION { { [i \in 1..n |-> LogEvent(i, RawLine(f[i], "text"))]
              : f \in [1..n -> 1..2] } : n \in 0..MaxHarnessLen }

HarnessTokens == {None, 1, 2}

InitPush ==
    /\ pc = "push"
    /\ pending = "none"
    /\ container = FALSE
    /\ log_events = <<>>
    /\ sequence_token = None
    /\ line = <<>>
    /\ drain_out = <<>>
    /\ nLines = 0
    /\ nBlank = 0
    /\ \E b \in HarnessBatches, t \in HarnessTokens :
         frame = Call(b, t, "harness")
    /\ result = None
    /\ sinkLog = <<>>
    /\ sinkNext = 2
    /\ sleeps = <<>>
    /\ cleanup = <<>>
    /\ accepted = <<>>
    /\ steps = <<>>
    /\ loopEnd = "running"
    /\ provision = <<>>
    /\ escaped = FALSE

\* the call returns to its caller
ReturnToHarness ==
    /\ pc = "push_return"
    /\ UNCHANGED provision
    /\ UNCHANGED steps
    /\ UNCHANGED loopEnd
    /\ frame.caller = "harness"
    /\ pc' = "harness_done"
    /\ UNCHANGED <<pending, container, log_events, sequence_token, line,
                   drain_out, nLines, nBlank, frame, result, sinkLog, sinkNext,
                   sleeps, cleanup, accepted, escaped>>

NextPush ==
    \/ PushEmpty
    \/ PutOk
    \/ PutThrottled
    \/ PutFailed
    \/ PutRaised
    \/ ReturnToHarness

SpecPush == InitPush /\ [][NextPush]_vars

\* ------------------------- push_log_events under sustained throttling
\* one call with a batch of one event; the sink may throttle as long as the
\* stack lasts
InitDeep ==
    /\ pc = "push"
    /\ pending = "none"
    /\ container = FALSE
    /\ log_events = <<>>
    /\ sequence_token = None
    /\ line = <<>>
    /\ drain_out = <<>>
    /\ nLines = 0
    /\ nBlank = 0
    /\ frame = Call(<<LogEvent(1, RawLine(1, "text"))>>, 1, "harness")
    /\ result = None
    /\ sinkLog = <<>>
    /\ sinkNext = 2
    /\ sleeps = <<>>
    /\ cleanup = <<>>
    /\ accepted = <<>>
    /\ steps = <<>>
    /\ loopEnd = "running"
    /\ provision = <<>>
    /\ escaped = FALSE

PutThrottledDeep == Throttled(RecursionLimit)

NextDeep ==
    \/ PutOk
    \/ PutThrottledDeep
    \/ PutFailed
    \/ PutRaised
    \/ ReturnToHarness

SpecDeep == InitDeep /\ [][NextDeep]_vars

\* =============================================================== claims
Calls(answer) == { i \in DOMAIN sinkLog : sinkLog[i].answer = answer }

RECURSIVE ConcatOk(_)
\* the messages of the batches the sink accepted, in submission order
ConcatOk(log) ==
    IF log = <<>> THEN <<>>
    ELSE (IF Head(log).answer = "ok" THEN Messages(Head(log).events) ELSE <<>>)
         \o ConcatOk(Tail(log))

Reached(step) == \E i \in DOMAIN steps : steps[i] = step

\* no append of the session failed: every answer was success or throttling
NoAppendFailed == Calls("failed") = {} /\ Calls("raised") = {}

\* C1: whenever main has returned after containers.run gave a handle, stop
\* was called exactly once and then remove exactly once.
C1_StopThenRemoveOnce ==
    (pc = "done" /\ container) => cleanup = <<"stop", "remove">>

\* C2: every batch handed to put_log_events has at most N events, the
\* final batch after the drain read included.
C2_BatchAtMostN ==
    \A i \in DOMAIN sinkLog : Len(sinkLog[i].events) <= N

C4_Scenario25 ==
    (pc = "done" /\ Reached("flush") /\ Len(accepted) = 25
       /\ Calls("ok") = DOMAIN sinkLog)
        => /\ Len(sinkLog) = 3
           /\ Len(sinkLog[1].events) = 10 /\ sinkLog[1].phase = "stream"
           /\ Len(sinkLog[2].events) = 10 /\ sinkLog[2].phase = "stream"
           /\ Len(sinkLog[3].events) = 5 /\ sinkLog[3].phase = "final"
           /\ sinkLog[1].token = None
           /\ sinkLog[2].token = sinkLog[1].issued
           /\ sinkLog[3].token = sinkLog[2].issued
           /\ sinkLog[1].issued # sinkLog[2].issued

C4_Witness ==
    /\ pc = "done"
    /\ Reached("flush")
    /\ Len(accepted) = 25
    /\ nLines = 25
    /\ Calls("ok") = DOMAIN sinkLog
    /\ cleanup = <<"stop", "remove">>

\* the token issued by the last successful append before call i, None if
\* there was none
LastIssuedBefore(i) ==
    LET oks == { j \in 1..(i - 1) : sinkLog[j].answer = "ok" } IN
    IF oks = {} THEN None
    ELSE sinkLog[CHOOSE j \in oks : \A h \in oks : h <= j].issued

\* C5: every append carries the token returned by the most recent
\* successful append, or none when no append has succeeded yet.
C5_CursorChaining ==
    \A i \in DOMAIN sinkLog : sinkLog[i].token = LastIssuedBefore(i)

C5_Witness ==
    \E i, j, k \in DOMAIN sinkLog :
        /\ i < j /\ j < k
        /\ sinkLog[i].answer = "ok"
        /\ sinkLog[j].answer = "failed"
        /\ sinkLog[k].answer = "throttled"
        /\ sinkLog[k].token = sinkLog[i].issued

\* C6: when a batch is throttled on its first K attempts and then accepted,
\* push_log_events made K+1 calls all carrying the batch and token it was
\* given, slept K times for SleepSecs, the sink accepted the batch once,
\* and the value returned is the token issued by the accepting call.
C6_ThrottledThenAccepted ==
    (pc = "harness_done" /\ sinkLog # <<>>
       /\ sinkLog[Len(sinkLog)].answer = "ok")
        => LET K == Cardinality(Calls("throttled")) IN
           /\ Len(sinkLog) = K + 1
           /\ \A i \in DOMAIN sinkLog :
                 /\ sinkLog[i].events = sinkLog[1].events
                 /\ sinkLog[i].token = sinkLog[1].token
           /\ Len(sleeps) = K
           /\ \A i \in DOMAIN sleeps : sleeps[i] = SleepSecs
           /\ Cardinality(Calls("ok")) = 1
           /\ result = sinkLog[Len(sinkLog)].issued
           /\ result # sinkLog[1].token

C6_Witness ==
    /\ pc = "harness_done"
    /\ Len(sinkLog) = 3
    /\ sinkLog[1].answer = "throttled"
    /\ sinkLog[2].answer = "throttled"
    /\ sinkLog[3].answer = "ok"
    /\ sinkLog[1].token # None
    /\ Len(sinkLog[1].events) = 2

C8_EmptyBatchNoOp ==
    (frame.caller = "harness" /\ frame.events = <<>>)
        => /\ sinkLog = <<>>
           /\ sleeps = <<>>
           /\ pc \in {"push", "push_return", "harness_done"}
           /\ pc # "push" => result = frame.token

C8_Witness ==
    /\ pc = "harness_done"
    /\ frame.events = <<>>
    /\ frame.token # None
    /\ result = frame.token

\* every event held or submitted has a message that is not blank
NoBlankEvent ==
    /\ \A i \in DOMAIN log_events : Strip(log_events[i].message) # <<>>
    /\ \A i \in DOMAIN frame.events : Strip(frame.events[i].message) # <<>>
    /\ \A i \in DOMAIN sinkLog :
         \A j \in DOMAIN sinkLog[i].events :
            Strip(sinkLog[i].events[j].message) # <<>>

\* reading a whitespace-only line leaves the buffer alone and pushes nothing
BlankLineIgnored ==
    (pc = "stream" /\ nLines' = nLines + 1 /\ Strip(line') = <<>>)
        => /\ log_events' = log_events
           /\ accepted' = accepted
           /\ sinkLog' = sinkLog
           /\ pc' = "stream"

\* the drain pass adds one event per line that is not blank
BlankDrainIgnored ==
    (pc = "extend" /\ pc' = "final")
        => Len(log_events') = Len(log_events)
             + Cardinality({ i \in DOMAIN drain_out : Strip(drain_out[i]) # <<>> })

\* C9: a whitespace-only line never becomes an event, in the streaming
\* pass and in the drain pass, and does not count toward the threshold.
C9_BlankLinesFiltered ==
    /\ []NoBlankEvent
    /\ [][BlankLineIgnored /\ BlankDrainIgnored]_vars

C9_Witness ==
    /\ pc = "stream"
    /\ line = <<SP>>
    /\ Len(log_events) = N - 1
    /\ sinkLog # <<>>

\* C10: no exception leaves main.
C10_NothingEscapes ==
    /\ ~escaped
    /\ pc = "outer_except" => pending # "none"

C10_Witness ==
    /\ pc = "done"
    /\ ~escaped
    /\ cleanup = <<"stop", "remove">>
    /\ sinkLog # <<>>
    /\ sinkLog[Len(sinkLog)].answer = "raised"

\* C11: as long as the sink has answered nothing but throttling,
\* push_log_events is still retrying the batch and token it was given,
\* having slept SleepSecs after each answer: it has not returned, raised
\* or abandoned the batch, however many throttling answers there were.
C11_RetriedWithoutCap ==
    (sinkLog # <<>> /\ Calls("throttled") = DOMAIN sinkLog)
        => /\ pc = "push"
           /\ frame.events = sinkLog[1].events
           /\ frame.token = sinkLog[1].token
           /\ Len(sleeps) = Len(sinkLog)
           /\ \A i \in DOMAIN sleeps : sleeps[i] = SleepSecs

\* the streaming read itself raised (APIError or another exception)
ReadFailed == loopEnd \in {"APIError", "Exception"}

\* after a failed streaming read nothing more is read, drained or appended
PumpStopped ==
    ReadFailed => /\ nLines' = nLines
                  /\ accepted' = accepted
                  /\ sinkLog' = sinkLog
                  /\ drain_out' = drain_out
                  /\ ~(\E i \in DOMAIN steps' : steps'[i] \in {"drain", "flush"})

\* once main has returned after a failed streaming read, stop and then
\* remove were invoked
CleanedAfterReadFailure ==
    (ReadFailed /\ pc = "done") => cleanup = <<"stop", "remove">>

\* C12: when the streaming read raises, the pump stops (no further line
\* is read, no drain read, no further append) and stop then remove are
\* still invoked on the container.
C12_ReadErrorStopsPump ==
    /\ [][PumpStopped]_vars
    /\ []CleanedAfterReadFailure

\* C13: while no container handle exists no line is read, nothing is
\* appended and neither stop nor remove is invoked; this covers every
\* session whose provisioning failed, up to its return.
C13_NoHandleNoWork ==
    ~container
        => /\ nLines = 0
           /\ accepted = <<>>
           /\ drain_out = <<>>
           /\ sinkLog = <<>>
           /\ cleanup = <<>>
           /\ \A i \in DOMAIN steps :
                 steps[i] \in {"ensure_group", "ensure_stream", "connect", "start"}
           /\ pc \in {"create_group", "create_stream", "from_env", "run",
                       "outer_except", "done"}

C13_Witness ==
    /\ pc = "done"
    /\ ~container
    /\ steps = <<"ensure_group", "ensure_stream", "connect", "start">>
    /\ provision = <<"created", "created">>

\* C14: an already-exists answer for the group or for the stream raises
\* nothing: main is at the step that follows, as after a fresh creation.
C14_ExistsIsSuccess ==
    \A i \in DOMAIN provision :
        (provision[i] = "exists" /\ Len(steps) = i)
            => /\ pc = (IF i = 1 THEN "create_stream" ELSE "from_env")
               /\ pending = "none"

C14_Witness ==
    /\ provision = <<"exists", "exists">>
    /\ pc = "done"
    /\ container
    /\ Reached("flush")
    /\ Cardinality(Calls("ok")) = 2
    /\ cleanup = <<"stop", "remove">>

\* timestamps of the events of the k-th sink call
Stamps(k) == { sinkLog[k].events[a].timestamp : a \in DOMAIN sinkLog[k].events }

\* the k-th sink call ended the append of its batch
Finished(k) == sinkLog[k].answer # "throttled"

\* sink calls come in batch creation order: a later call carries the same
\* batch as the call before it, which was throttled, or a batch whose
\* events are all newer than those of every earlier call
InCreationOrder ==
    \A k \in DOMAIN sinkLog :
        k > 1 =>
          IF Finished(k - 1)
          THEN \A h \in 1..(k - 1) :
                 \A x \in Stamps(h), y \in Stamps(k) : x < y
          ELSE sinkLog[k].events = sinkLog[k - 1].events

\* while push_log_events runs (a call or a throttle wait), no line is read
NoReadDuringAppend ==
    pc \in {"push", "push_return"}
        => /\ nLines' = nLines
           /\ accepted' = accepted
           /\ line' = line
           /\ drain_out' = drain_out

\* C15: batches reach the sink strictly in creation order, the first call
\* for a batch coming only after the append of the previous batch has
\* finished, and no line is read while an append is in progress.
C15_OneAppendInFlight ==
    /\ []InCreationOrder
    /\ [][NoReadDuringAppend]_vars

C15_Witness ==
    /\ pc = "push"
    /\ frame.caller = "final"
    /\ Len(sinkLog) = 4
    /\ sinkLog[1].answer = "throttled"
    /\ sinkLog[2].answer = "failed"
    /\ sinkLog[3].answer = "ok"
    /\ sinkLog[4].answer = "throttled"

\* the place of a step in the order of main
Rank(step) ==
    CASE step = "ensure_group"  -> 1
      [] step = "ensure_stream" -> 2
      [] step = "connect"       -> 3
      [] step = "start"         -> 4
      [] step = "stream"        -> 5
      [] step = "drain"         -> 6
      [] step = "flush"         -> 7
      [] step = "stop"          -> 8
      [] step = "remove"        -> 9

\* steps are taken in rising order, none twice; the drain read follows the
\* exhaustion of the stream and the final flush follows the drain read
StepsInOrder ==
    /\ \A i, j \in DOMAIN steps : i < j => Rank(steps[i]) < Rank(steps[j])
    /\ Reached("drain") => loopEnd = "exhausted"
    /\ Reached("flush") => Reached("drain")
    /\ Reached("stream") => Reached("start")
    /\ Reached("remove") => Reached("stop")

\* no append is attempted once stop was called
NoAppendAfterStop == Reached("stop") => sinkLog' = sinkLog

\* C16: the steps of main occur only in the order ensure group, ensure
\* stream, start, streaming, drain read, final flush, stop, remove; a step
\* may be missing but none is out of order or repeated, and stop and
\* remove come after the last append attempt.
C16_StepOrder ==
    /\ []StepsInOrder
    /\ [][NoAppendAfterStop]_vars

C16_Witness ==
    /\ pc = "done"
    /\ steps = <<"ensure_group", "ensure_stream", "connect", "start",
                 "stream", "drain", "flush", "stop", "remove">>
    /\ Len(sinkLog) = 3

\* the streaming loop is left only for the drain read (the stream is
\* exhausted) or for the finally block (a read, a decode or an append
\* raised)
LoopEndsByExhaustionOrError ==
    (loopEnd = "running" /\ loopEnd' # "running")
        => \/ loopEnd' = "exhausted" /\ pc' = "drain"
           \/ loopEnd' \in {"APIError", "Exception", "decode", "append"}
                /\ pc' = "stop"

\* main has returned from a session that had a container only after stop
\* and remove were both invoked
ReturnsAfterCleanup ==
    (pc = "done" /\ container)
        => (\E i, j \in DOMAIN cleanup :
               i < j /\ cleanup[i] = "stop" /\ cleanup[j] = "remove")

\* C17: with finite output and finitely many throttling answers main
\* terminates, it does so only after stop and remove were invoked on the
\* container, and the streaming loop ends only by exhaustion or by an
\* error of the read, decode or append path.
C17_Terminates ==
    /\ <>(pc = "done")
    /\ []ReturnsAfterCleanup
    /\ [][LoopEndsByExhaustionOrError]_vars

\* the buffer holds fewer than N events between line reads and exactly N
\* while the streaming loop pushes; every batch of the loop has N events
BufferBelowThreshold ==
    /\ pc = "stream" => Len(log_events) < N
    /\ (pc \in {"push", "push_return"} /\ frame.caller = "stream")
         => Len(log_events) = N /\ frame.events = log_events
    /\ \A i \in DOMAIN sinkLog :
         sinkLog[i].phase = "stream" => Len(sinkLog[i].events) = N

\* the loop resumes after a push with an empty buffer
ResetAfterPush ==
    (pc = "push_return" /\ pc' = "stream") => log_events' = <<>>

\* C18: every batch pushed by the streaming loop has exactly N events:
\* the buffer stays below N between reads, the push happens when it
\* reaches N, and the buffer is empty after the push whether the append
\* succeeded or was abandoned.
C18_StreamBatchesExactlyN ==
    /\ []BufferBelowThreshold
    /\ [][ResetAfterPush]_vars

C18_Witness ==
    /\ pc = "stream"
    /\ log_events = <<>>
    /\ Len(sinkLog) = 2
    /\ sinkLog[1].answer = "ok"
    /\ sinkLog[2].answer = "failed"
    /\ sinkLog[2].phase = "stream"
    /\ Len(accepted) = 2 * N

\* the streaming pass was aborted by a read or decode error
Aborted == loopEnd \in {"APIError", "Exception", "decode"}

\* the events left in the buffer by an aborted pass are in no sink call
BufferNeverSubmitted ==
    Aborted => \A i \in DOMAIN log_events, k \in DOMAIN sinkLog :
                  \A a \in DOMAIN sinkLog[k].events :
                     sinkLog[k].events[a] # log_events[i]

\* after the abort the buffer is not touched and the sink is not called
NoFlushAfterAbort ==
    Aborted => sinkLog' = sinkLog /\ log_events' = log_events

\* C19: when the streaming pass is aborted by an error with k events
\* buffered, those events are never submitted to the sink.
C19_PartialBufferDropped ==
    /\ []BufferNeverSubmitted
    /\ [][NoFlushAfterAbort]_vars

C19_Witness ==
    /\ pc = "done"
    /\ loopEnd = "APIError"
    /\ Len(log_events) = N - 1
    /\ Len(sinkLog) = 1
    /\ cleanup = <<"stop", "remove">>

====
